---- MODULE Spec2Model ----
(***************************************************************************)
(* Model of tools/dicom-reg-converter/reg_to_h5.cxx: a command-line driver *)
(* that reads the per-frame composite transforms of a DICOM REG file and   *)
(* writes either one frame's composite or the pair composition             *)
(* moving + inverse(fixed).                                                *)
(*                                                                         *)
(* Scalars are double in the program (ScalarType).  The matrices of the    *)
(* model are integer-valued with determinant in {-1, 0, 1}, so that every  *)
(* product and every inverse is exact and the arithmetic of the model is   *)
(* the arithmetic of the program on those values.                          *)
(***************************************************************************)
EXTENDS Integers, Sequences, FiniteSets, TLC

VARIABLES argv, file, pc, args, transform, stderr, exitCode,
          outputFile, writerCalls, reads, mode, hist

vars == <<argv, file, pc, args, transform, stderr, exitCode,
          outputFile, writerCalls, reads, mode, hist>>

(***************************************************************************)
(* Bounds of the model.                                                    *)
(***************************************************************************)
\* Longest command line, counted in items (a flag with its value, or a lone token).
MaxItems == 4
\* Longest top-level transform queue the parser returns for one frame.
MaxQueueLen == 2

(***************************************************************************)
(* Program constants.                                                      *)
(***************************************************************************)
EXIT_SUCCESS == 0
EXIT_FAILURE == 1

(***************************************************************************)
(* Transforms.  A matrix transform is a 3x3 matrix m and an offset o, its  *)
(* action on p is m*p + o.  A composite transform holds a queue of         *)
(* transforms, each a matrix transform or again a composite.               *)
(***************************************************************************)
Mat(m, o) == [kind |-> "Matrix", m |-> m, o |-> o, queue |-> <<>>]

NoMatrix == <<<<0, 0, 0>>, <<0, 0, 0>>, <<0, 0, 0>>>>

\* CompositeType::New() followed by filling the queue with q
Comp(q) == [kind |-> "Composite", m |-> NoMatrix, o |-> <<0, 0, 0>>, queue |-> q]

IsComposite(t) == t.kind = "Composite"

Identity3 == <<<<1, 0, 0>>, <<0, 1, 0>>, <<0, 0, 1>>>>

\* translation by (10,0,0)
T10 == Mat(Identity3, <<10, 0, 0>>)
\* translation by (0,5,0)
T5 == Mat(Identity3, <<0, 5, 0>>)
\* rotation by 90 degrees about the z axis
Rz == Mat(<<<<0, -1, 0>>, <<1, 0, 0>>, <<0, 0, 1>>>>, <<0, 0, 0>>)
\* projection onto the xy plane followed by a shift: rank 2, not invertible
Proj == Mat(<<<<1, 0, 0>>, <<0, 1, 0>>, <<0, 0, 0>>>>, <<0, 0, 1>>)

Dot(r, p) == r[1] * p[1] + r[2] * p[2] + r[3] * p[3]

MatVec(m, p) == <<Dot(m[1], p), Dot(m[2], p), Dot(m[3], p)>>

VecAdd(p, q) == <<p[1] + q[1], p[2] + q[2], p[3] + q[3]>>

VecNeg(p) == <<0 - p[1], 0 - p[2], 0 - p[3]>>

\* MatrixOffsetTransformBase::TransformPoint
MatrixTransformPoint(t, p) == VecAdd(MatVec(t.m, p), t.o)

Det(m) ==
    m[1][1] * (m[2][2] * m[3][3] - m[2][3] * m[3][2])
  - m[1][2] * (m[2][1] * m[3][3] - m[2][3] * m[3][1])
  + m[1][3] * (m[2][1] * m[3][2] - m[2][2] * m[3][1])

\* cofactor of entry (i, j), indices cyclic in 1..3
Nxt(i) == (i % 3) + 1

Cofactor(m, i, j) ==
    m[Nxt(i)][Nxt(j)] * m[Nxt(Nxt(i))][Nxt(Nxt(j))]
  - m[Nxt(i)][Nxt(Nxt(j))] * m[Nxt(Nxt(i))][Nxt(j)]

\* the inverse of a matrix of determinant 1 or -1: adjugate divided by determinant
MatrixInverse(m) ==
    [i \in 1..3 |-> [j \in 1..3 |-> Cofactor(m, j, i) * Det(m)]]

\* IsSingular with the zero-determinant check lost
IsSingular_Never(t) == FALSE

\* Matrix::GetInverse throws on a zero determinant; the transform is then singular
IsSingular(t) == Det(t.m) = 0

\* MatrixOffsetTransformBase::GetInverse on a non-singular transform
MatrixGetInverse(t) ==
    Mat(MatrixInverse(t.m), VecNeg(MatVec(MatrixInverse(t.m), t.o)))

(***************************************************************************)
(* itk::CompositeTransform.                                                *)
(***************************************************************************)
\* CompositeTransform::AddTransform: push to the back of the queue
AddTransform(c, t) == Comp(Append(c.queue, t))

\* CompositeTransform::PushFrontTransform
PushFrontTransform(c, t) == Comp(<<t>> \o c.queue)

RECURSIVE FlattenQueue(_)
\* the queue with every nested composite replaced, in place, by its own
\* flattened queue
FlattenQueue(q) ==
    IF q = <<>> THEN <<>>
    ELSE (IF IsComposite(Head(q)) THEN FlattenQueue(Head(q).queue) ELSE <<Head(q)>>)
         \o FlattenQueue(Tail(q))

\* CompositeTransform::FlattenTransformQueue
FlattenTransformQueue(c) == Comp(FlattenQueue(c.queue))

IsFlattened(c) == \A i \in 1..Len(c.queue) : ~IsComposite(c.queue[i])

RECURSIVE InverseFrom(_, _, _)
\* CompositeTransform::GetInverse: walk the queue front to back, push the
\* inverse of each element to the FRONT of the result; give up at the first
\* element that has no inverse.  The result is [ok, inverse].
InverseFrom(q, i, inv) ==
    IF i > Len(q) THEN [ok |-> TRUE, inverse |-> inv]
    ELSE IF IsComposite(q[i])
         THEN LET sub == InverseFrom(q[i].queue, 1, Comp(<<>>))
              IN  IF sub.ok
                  THEN InverseFrom(q, i + 1, PushFrontTransform(inv, sub.inverse))
                  ELSE [ok |-> FALSE, inverse |-> Comp(<<>>)]
         ELSE IF IsSingular(q[i])
              THEN [ok |-> FALSE, inverse |-> Comp(<<>>)]
              ELSE InverseFrom(q, i + 1, PushFrontTransform(inv, MatrixGetInverse(q[i])))

\* GetInverse pushing each inverse to the back: the order is not reversed
GetInverse_KeepsOrder(c) ==
    LET r == InverseFrom(c.queue, 1, Comp(<<>>))
        n == Len(r.inverse.queue)
    IN  [ok |-> r.ok, inverse |-> Comp([i \in 1..n |-> r.inverse.queue[n + 1 - i]])]

GetInverse(c) == InverseFrom(c.queue, 1, Comp(<<>>))

RECURSIVE TransformPoint(_, _)
\* CompositeTransform::TransformPoint: the queue is applied back to front,
\* the transform added last acts on the point first
TransformPoint(t, p) ==
    IF ~IsComposite(t) THEN MatrixTransformPoint(t, p)
    ELSE IF t.queue = <<>> THEN p
    ELSE TransformPoint(Comp(SubSeq(t.queue, 1, Len(t.queue) - 1)),
                        TransformPoint(t.queue[Len(t.queue)], p))

RECURSIVE ApplyLeftToRight(_, _)
\* the action rule of the data model: the first element of the queue acts
\* on the point first
ApplyLeftToRight(t, p) ==
    IF ~IsComposite(t) THEN MatrixTransformPoint(t, p)
    ELSE IF t.queue = <<>> THEN p
    ELSE ApplyLeftToRight(Comp(Tail(t.queue)), ApplyLeftToRight(Head(t.queue), p))

(***************************************************************************)
(* Diagnostics.  A line on the error stream is its fixed prefix, its text  *)
(* and the frame UID the text ends with ("" when it names none).           *)
(***************************************************************************)
Line(prefix, text, uid) == [prefix |-> prefix, text |-> text, uid |-> uid]

\* PrintUsage
UsageLine == Line("Usage: ", "--input REG_FILE --output OUTPUT_H5 [--fixed FRAME_UID] [--moving FRAME_UID]", "")

UnknownArgumentLine(key) == Line("Unknown argument: ", key, "")

\* catch (const std::exception &ex)
StdErrorLine(e) == Line("Error: ", e.what, e.uid)

\* catch (const itk::ExceptionObject &err)
ItkErrorLine(e) == Line("ITK error: ", e.what, e.uid)

\* std::runtime_error(what + uid)
RuntimeError(what, uid) == [type |-> "std::runtime_error", what |-> what, uid |-> uid]

\* an exception raised inside the library
ItkException(what) == [type |-> "itk::ExceptionObject", what |-> what, uid |-> ""]

NoException == [type |-> "none", what |-> "", uid |-> ""]

NoTransformsFound == "No transforms found for frame of reference "
ExpectedComposite == "Expected CompositeTransform for frame "
NotInvertible == "Fixed transform is not invertible"
MissingFixedFoR == "At least --fixed must be supplied to determine which transform to export"

ErrorLine(e) == IF e.type = "itk::ExceptionObject" THEN ItkErrorLine(e) ELSE StdErrorLine(e)

(***************************************************************************)
(* ParseArguments.  argv holds argv[1] .. argv[argc-1]; an absent optional *)
(* is the empty sequence, a present one the one-element sequence.          *)
(***************************************************************************)
EmptyArguments == [inputReg |-> "", outputTransform |-> "", fixedFoR |-> <<>>, movingFoR |-> <<>>]

HasValue(o) == o /= <<>>
Value(o) == o[1]

RECURSIVE ParseLoop(_, _, _)
\* the for loop over argv and the check after it; the result tells how the
\* function ended: "parsed" (it returned args), "help", "unknown" (with the
\* offending key) or "missing" (std::exit from inside)
ParseLoop(av, i, a) ==
    IF i > Len(av)
    THEN IF a.inputReg = "" \/ a.outputTransform = ""
         THEN [outcome |-> "missing", args |-> a, key |-> ""]
         ELSE [outcome |-> "parsed", args |-> a, key |-> ""]
    ELSE LET key == av[i]
             more == i + 1 <= Len(av)
         IN  IF key \in {"--input", "-i"} /\ more
             THEN ParseLoop(av, i + 2, [a EXCEPT !.inputReg = av[i + 1]])
             ELSE IF key \in {"--output", "-o"} /\ more
             THEN ParseLoop(av, i + 2, [a EXCEPT !.outputTransform = av[i + 1]])
             ELSE IF key = "--fixed" /\ more
             THEN ParseLoop(av, i + 2, [a EXCEPT !.fixedFoR = <<av[i + 1]>>])
             ELSE IF key = "--moving" /\ more
             THEN ParseLoop(av, i + 2, [a EXCEPT !.movingFoR = <<av[i + 1]>>])
             ELSE IF key \in {"--help", "-h"}
             THEN [outcome |-> "help", args |-> a, key |-> key]
             ELSE [outcome |-> "unknown", args |-> a, key |-> key]

\* ParseArguments without the check for the required paths after the loop
ParseArguments_NoRequiredCheck(av) ==
    LET r == ParseLoop(av, 1, EmptyArguments)
    IN  IF r.outcome = "missing" THEN [r EXCEPT !.outcome = "parsed"] ELSE r

ParseArguments(av) == ParseLoop(av, 1, EmptyArguments)

(***************************************************************************)
(* The REG file as the reader sees it: whether the parser can decode it,   *)
(* and for each frame UID the transform list the parser yields.            *)
(***************************************************************************)
\* reader->GetTransformList() after reader->Update() for frame uid
GetTransformList(f, uid) == IF uid \in DOMAIN f.lists THEN f.lists[uid] ELSE <<>>

Returned(c, rd) == [thrown |-> FALSE, exception |-> NoException, value |-> c, reads |-> rd]
Thrown(e, rd) == [thrown |-> TRUE, exception |-> e, value |-> Comp(<<>>), reads |-> rd]

\* ReadComposite whose messages leave the frame UID out
ReadComposite_NoUid(f, frameOfReference) ==
    IF ~f.readable
    THEN Thrown(ItkException("reader"), <<frameOfReference>>)
    ELSE LET list == GetTransformList(f, frameOfReference)
         IN  IF list = <<>>
             THEN Thrown(RuntimeError(NoTransformsFound, ""), <<frameOfReference>>)
             ELSE IF ~IsComposite(list[1])
             THEN Thrown(RuntimeError(ExpectedComposite, ""), <<frameOfReference>>)
             ELSE Returned(list[1], <<frameOfReference>>)

ReadComposite(f, frameOfReference) ==
    IF ~f.readable
    THEN Thrown(ItkException("reader"), <<frameOfReference>>)
    ELSE LET list == GetTransformList(f, frameOfReference)
         IN  IF list = <<>>
             THEN Thrown(RuntimeError(NoTransformsFound, frameOfReference), <<frameOfReference>>)
             ELSE IF ~IsComposite(list[1])
             THEN Thrown(RuntimeError(ExpectedComposite, frameOfReference), <<frameOfReference>>)
             ELSE Returned(list[1], <<frameOfReference>>)

\* ComposeFixedToMoving adding the inverse of the fixed frame before the
\* moving frame
ComposeFixedToMoving_FixedFirst(f, fixedFoR, movingFoR) ==
    LET fixedRead == ReadComposite(f, fixedFoR)
    IN  IF fixedRead.thrown THEN fixedRead
        ELSE
        LET movingRead == ReadComposite(f, movingFoR)
            rd == fixedRead.reads \o movingRead.reads
        IN  IF movingRead.thrown THEN Thrown(movingRead.exception, rd)
            ELSE
            LET fixed == FlattenTransformQueue(fixedRead.value)
                moving == FlattenTransformQueue(movingRead.value)
                fixedInverse == GetInverse(fixed)
            IN  IF ~fixedInverse.ok
                THEN Thrown(RuntimeError(NotInvertible, ""), rd)
                ELSE Returned(FlattenTransformQueue(
                                  AddTransform(AddTransform(Comp(<<>>), fixedInverse.inverse),
                                               moving)), rd)

ComposeFixedToMoving(f, fixedFoR, movingFoR) ==
    LET fixedRead == ReadComposite(f, fixedFoR)
    IN  IF fixedRead.thrown THEN fixedRead
        ELSE
        LET movingRead == ReadComposite(f, movingFoR)
            rd == fixedRead.reads \o movingRead.reads
        IN  IF movingRead.thrown THEN Thrown(movingRead.exception, rd)
            ELSE
            LET fixed == FlattenTransformQueue(fixedRead.value)
                moving == FlattenTransformQueue(movingRead.value)
                fixedInverse == GetInverse(fixed)
            IN  IF ~fixedInverse.ok
                THEN Thrown(RuntimeError(NotInvertible, ""), rd)
                ELSE Returned(FlattenTransformQueue(
                                  AddTransform(AddTransform(Comp(<<>>), moving),
                                               fixedInverse.inverse)), rd)

\* ExtractSingle without the final flattening
ExtractSingle_NoFlatten(f, frameOfReference) ==
    LET fixedRead == ReadComposite(f, frameOfReference)
    IN  IF fixedRead.thrown THEN fixedRead
        ELSE Returned(AddTransform(Comp(<<>>), fixedRead.value), fixedRead.reads)

ExtractSingle(f, frameOfReference) ==
    LET fixedRead == ReadComposite(f, frameOfReference)
    IN  IF fixedRead.thrown THEN fixedRead
        ELSE Returned(FlattenTransformQueue(AddTransform(Comp(<<>>), fixedRead.value)),
                      fixedRead.reads)

\* the branch taken when the first test looks at the fixed frame only and
\* the moving frame is ignored
SelectMode_IgnoresMoving(a) ==
    IF HasValue(a.fixedFoR) THEN "single" ELSE "missingFixed"

\* the branch main takes on the parsed arguments
SelectMode(a) ==
    IF HasValue(a.fixedFoR) /\ HasValue(a.movingFoR) THEN "pair"
    ELSE IF HasValue(a.fixedFoR) THEN "single"
    ELSE "missingFixed"

(***************************************************************************)
(* Inputs: command lines and REG files.                                    *)
(***************************************************************************)
\* what a command line is made of: a flag with its value, or a lone token
\* (a help flag, an unknown flag, a flag whose value is missing)
ItemSet ==
    { <<"-i", "r.dcm">>, <<"--output", "t.h5">>, <<"--fixed", "A">>,
      <<"--moving", "B">>, <<"--help">>, <<"--bogus">>, <<"--fixed">> }

RECURSIVE Concat(_)
Concat(ss) == IF ss = <<>> THEN <<>> ELSE Head(ss) \o Concat(Tail(ss))

\* the command lines of at most MaxItems items, no item given twice
ArgvSet ==
    { Concat(ss) : ss \in { s \in UNION { [1..n -> ItemSet] : n \in 0..MaxItems } :
                                \A i, j \in 1..Len(s) : i /= j => s[i] /= s[j] } }

PairArgv == <<"--input", "r.dcm", "-o", "t.h5", "--fixed", "A", "--moving", "B">>
SingleArgv == <<"--input", "r.dcm", "-o", "t.h5", "--fixed", "A">>

\* the frame UIDs a REG file of the model can carry
FileUIDs == {"A", "B"}

File(a, b) == [readable |-> TRUE, lists |-> [u \in FileUIDs |-> IF u = "A" THEN a ELSE b]]

\* a file the parser cannot decode
Unreadable == [readable |-> FALSE, lists |-> [u \in FileUIDs |-> <<>>]]

\* the files of the end-to-end scenarios: both frames a translation; one
\* frame only; a singular fixed frame; a frame with no matrix in it; a
\* frame whose first transform is no composite; an undecodable file
ScenarioFiles ==
    { File(<<Comp(<<T10>>)>>, <<Comp(<<T5>>)>>),
      File(<<Comp(<<Rz, T10>>)>>, <<>>),
      File(<<>>, <<Comp(<<T5>>)>>),
      File(<<Comp(<<Proj>>)>>, <<Comp(<<T5>>)>>),
      File(<<Comp(<<>>)>>, <<Comp(<<T5>>)>>),
      File(<<T10>>, <<>>),
      Unreadable }

\* the matrix transforms and the nested composites a queue is made of
Pool == {T10, Rz, Proj}

NestedComposites == { Comp(<<Rz, T5>>) }

Queues == UNION { [1..n -> Pool \cup NestedComposites] : n \in 0..MaxQueueLen }

\* the transform lists a parser run can yield for one frame: nothing, a
\* bare matrix transform, or one composite
Lists == { <<>>, <<T10>> } \cup { <<Comp(q)>> : q \in Queues }

Files == { File(a, b) : a \in Lists, b \in Lists } \cup { Unreadable }

\* the points the transforms are compared on
Points == { <<0, 0, 0>>, <<1, 0, 0>>, <<0, 1, 0>>, <<1, 2, 3>> }

(***************************************************************************)
(* The driver.                                                             *)
(***************************************************************************)
NoFile == [exists |-> FALSE, complete |-> FALSE, content |-> Comp(<<>>)]

\* the process at the entry of main
Start ==
    /\ pc = "Init"
    /\ args = EmptyArguments
    /\ transform = <<>>
    /\ stderr = <<>>
    /\ exitCode = <<>>
    /\ outputFile = NoFile
    /\ writerCalls = 0
    /\ reads = <<>>
    /\ mode = "none"
    /\ hist = <<"Init">>

\* any command line, on the files of the scenarios
DriverInit == argv \in ArgvSet /\ file \in ScenarioFiles /\ Start

\* the pair-mode command line on any file, the single-mode one on any
\* content of the frame it names
EngineInit ==
    /\ \/ argv = PairArgv /\ file \in Files
       \/ argv = SingleArgv /\ file \in { File(a, <<>>) : a \in Lists }
    /\ Start

Init == DriverInit \/ EngineInit

Goto(state) == pc' = state /\ hist' = Append(hist, state)

\* main, line 147: ParseArguments returns the record or ends the process
MainParseArguments ==
    /\ pc = "Init"
    /\ LET r == ParseArguments(argv)
       IN  IF r.outcome = "parsed"
           THEN /\ args' = r.args
                /\ Goto("ArgsParsed")
                /\ UNCHANGED <<stderr, exitCode>>
           ELSE /\ stderr' = stderr
                               \o (IF r.outcome = "unknown"
                                   THEN <<UnknownArgumentLine(r.key)>> ELSE <<>>)
                               \o <<UsageLine>>
                /\ exitCode' = <<IF r.outcome = "help" THEN EXIT_SUCCESS ELSE EXIT_FAILURE>>
                /\ Goto("Exited")
                /\ UNCHANGED args
    /\ UNCHANGED <<argv, file, transform, outputFile, writerCalls, reads, mode>>

\* the handler printing the error and main going on to the writer
Engine_GoesOnAfterError(r) ==
    /\ reads' = reads \o r.reads
    /\ transform' = <<r.value>>
    /\ stderr' = IF r.thrown THEN Append(stderr, ErrorLine(r.exception)) ELSE stderr
    /\ Goto("Composed")

\* the result of an engine call reaches main: the composite, or the
\* exception, which one of the two handlers prints
Engine(r) ==
    /\ reads' = reads \o r.reads
    /\ IF r.thrown
       THEN /\ stderr' = Append(stderr, ErrorLine(r.exception))
            /\ Goto("ErrorReported")
            /\ UNCHANGED transform
       ELSE /\ transform' = <<r.value>>
            /\ Goto("Composed")
            /\ UNCHANGED stderr

\* main, lines 152-155
MainComposeFixedToMoving ==
    /\ pc = "ArgsParsed"
    /\ SelectMode(args) = "pair"
    /\ mode' = "pair"
    /\ \E r \in {ComposeFixedToMoving(file, Value(args.fixedFoR), Value(args.movingFoR))} :
          Engine(r)
    /\ UNCHANGED <<argv, file, args, exitCode, outputFile, writerCalls>>

\* main, lines 156-159
MainExtractSingle ==
    /\ pc = "ArgsParsed"
    /\ SelectMode(args) = "single"
    /\ mode' = "single"
    /\ \E r \in {ExtractSingle(file, Value(args.fixedFoR))} : Engine(r)
    /\ UNCHANGED <<argv, file, args, exitCode, outputFile, writerCalls>>

\* main, lines 160-163
MainMissingFixed ==
    /\ pc = "ArgsParsed"
    /\ SelectMode(args) = "missingFixed"
    /\ mode' = "missingFixed"
    /\ Engine(Thrown(RuntimeError(MissingFixedFoR, ""), <<>>))
    /\ UNCHANGED <<argv, file, args, exitCode, outputFile, writerCalls>>

\* main, lines 165-168: the writer serialises the composite, or fails with
\* a library exception, leaving no file or an incomplete one
MainWriterUpdate ==
    /\ pc = "Composed"
    /\ writerCalls' = writerCalls + 1
    /\ \E written \in BOOLEAN, partial \in BOOLEAN :
          IF written
          THEN /\ partial = FALSE
               /\ outputFile' = [exists |-> TRUE, complete |-> TRUE, content |-> transform[1]]
               /\ Goto("Written")
               /\ UNCHANGED stderr
          ELSE /\ outputFile' = IF partial
                                THEN [exists |-> TRUE, complete |-> FALSE, content |-> Comp(<<>>)]
                                ELSE outputFile
               /\ stderr' = Append(stderr, ErrorLine(ItkException("writer")))
               /\ Goto("ErrorReported")
    /\ UNCHANGED <<argv, file, args, transform, exitCode, reads, mode>>

\* main, line 169
MainReturnSuccess ==
    /\ pc = "Written"
    /\ exitCode' = <<EXIT_SUCCESS>>
    /\ Goto("Exited")
    /\ UNCHANGED <<argv, file, args, transform, stderr, outputFile, writerCalls, reads, mode>>

\* the last return giving the success status
MainReturnFailure_ExitsSuccess ==
    /\ pc = "ErrorReported"
    /\ exitCode' = <<EXIT_SUCCESS>>
    /\ Goto("Exited")
    /\ UNCHANGED <<argv, file, args, transform, stderr, outputFile, writerCalls, reads, mode>>

\* main, line 179
MainReturnFailure ==
    /\ pc = "ErrorReported"
    /\ exitCode' = <<EXIT_FAILURE>>
    /\ Goto("Exited")
    /\ UNCHANGED <<argv, file, args, transform, stderr, outputFile, writerCalls, reads, mode>>

Next ==
    \/ MainParseArguments
    \/ MainComposeFixedToMoving
    \/ MainExtractSingle
    \/ MainMissingFixed
    \/ MainWriterUpdate
    \/ MainReturnSuccess
    \/ MainReturnFailure

Spec == Init /\ [][Next]_vars

\* the program is sequential and every call it makes returns or throws:
\* a step that can be taken is taken
FairSpec == DriverInit /\ [][Next]_vars /\ WF_vars(Next)

(***************************************************************************)
(* Vocabulary of the properties.                                           *)
(***************************************************************************)
Done == pc = "Exited"

Passed(state) == \E i \in 1..Len(hist) : hist[i] = state

Failed == exitCode = <<EXIT_FAILURE>>

Succeeded == exitCode = <<EXIT_SUCCESS>>

LastLine == stderr[Len(stderr)]

FixedUID == Value(args.fixedFoR)

MovingUID == Value(args.movingFoR)

\* the composite the parser returned for a frame, as read
AsRead(uid) == GetTransformList(file, uid)[1]

HoldsComposite(uid) ==
    /\ file.readable
    /\ GetTransformList(file, uid) /= <<>>
    /\ IsComposite(AsRead(uid))

RECURSIVE MatricesOf(_)
\* the matrix transforms of a transform, in queue order
MatricesOf(t) ==
    IF ~IsComposite(t) THEN <<t>>
    ELSE IF t.queue = <<>> THEN <<>>
    ELSE MatricesOf(Head(t.queue)) \o MatricesOf(Comp(Tail(t.queue)))

\* t undoes s on every point of the model
Undoes(t, s) ==
    \A p \in Points : MatrixTransformPoint(t, MatrixTransformPoint(s, p)) = p

PairComposed == mode = "pair" /\ transform /= <<>>

SingleExtracted == mode = "single" /\ transform /= <<>>

(***************************************************************************)
(* C1.                                                                     *)
(***************************************************************************)
\* C1 as stated: in pair mode the returned composite R, acting by the rule
\* of the data model (first queue element first), maps F(q) to M(q) for
\* every point q, that is R(p) = M(F^-1(p)), F and M being the composites
\* as read and acting by the same rule; and with F the translation by
\* (10,0,0) and M the translation by (0,5,0) the origin goes to (-10,5,0).
C1_LeftToRightActsAsMovingAfterFixedInverse ==
    PairComposed =>
        /\ \A q \in Points :
              ApplyLeftToRight(transform[1], ApplyLeftToRight(AsRead(FixedUID), q))
                  = ApplyLeftToRight(AsRead(MovingUID), q)
        /\ (AsRead(FixedUID) = Comp(<<T10>>) /\ AsRead(MovingUID) = Comp(<<T5>>))
              => ApplyLeftToRight(transform[1], <<0, 0, 0>>) = <<-10, 5, 0>>

\* C1 amended: the same with the library's rule, under which the LAST
\* element of a queue acts first: R(F(q)) = M(q) for every point q, that
\* is R(p) = M(F^-1(p)); the translation example gives (-10,5,0).
C1_ComposeActsAsMovingAfterFixedInverse ==
    PairComposed =>
        /\ \A q \in Points :
              TransformPoint(transform[1], TransformPoint(AsRead(FixedUID), q))
                  = TransformPoint(AsRead(MovingUID), q)
        /\ (AsRead(FixedUID) = Comp(<<T10>>) /\ AsRead(MovingUID) = Comp(<<T5>>))
              => TransformPoint(transform[1], <<0, 0, 0>>) = <<-10, 5, 0>>

\* a pair composition of two frames that do not commute: the two rules
\* give different points
C1_Witness ==
    /\ PairComposed
    /\ FixedUID /= MovingUID
    /\ Len(MatricesOf(AsRead(FixedUID))) >= 2
    /\ \E p \in Points :
          TransformPoint(transform[1], p) /= ApplyLeftToRight(transform[1], p)

C10_QueueIsMovingThenReversedInverses ==
    PairComposed =>
        LET F == MatricesOf(AsRead(FixedUID))
            M == MatricesOf(AsRead(MovingUID))
            R == transform[1].queue
        IN  /\ Len(R) = Len(M) + Len(F)
            /\ IsFlattened(transform[1])
            /\ \A i \in 1..Len(M) : R[i] = M[i]
            /\ \A i \in 1..Len(F) :
                  /\ ~IsSingular(F[Len(F) + 1 - i])
                  /\ Undoes(R[Len(M) + i], F[Len(F) + 1 - i])
                  /\ Undoes(F[Len(F) + 1 - i], R[Len(M) + i])

\* a pair composition whose fixed frame holds two different invertible
\* matrices and whose moving frame holds two
C10_Witness ==
    /\ PairComposed
    /\ LET F == MatricesOf(AsRead(FixedUID))
       IN  Len(F) >= 2 /\ F[1] /= F[Len(F)]
    /\ Len(MatricesOf(AsRead(MovingUID))) >= 2

(***************************************************************************)
(* C3.                                                                     *)
(***************************************************************************)
\* C3: once the arguments are parsed and main has branched, the branch
\* taken is pair composition iff both frames are present, single
\* extraction iff the fixed frame is present and the moving one absent,
\* and with the fixed frame absent the run fails with the missing-fixed
\* error, having read nothing and written nothing.
C3_ExactlyOneMode ==
    (Passed("ArgsParsed") /\ pc /= "ArgsParsed") =>
        /\ mode \in {"pair", "single", "missingFixed"}
        /\ mode = "pair" <=> (HasValue(args.fixedFoR) /\ HasValue(args.movingFoR))
        /\ mode = "single" <=> (HasValue(args.fixedFoR) /\ ~HasValue(args.movingFoR))
        /\ ~HasValue(args.fixedFoR) =>
              /\ mode = "missingFixed"
              /\ stderr = <<StdErrorLine(RuntimeError(MissingFixedFoR, ""))>>
              /\ reads = <<>>
              /\ writerCalls = 0
              /\ outputFile = NoFile
              /\ ~Passed("Composed")
              /\ Done => Failed

\* a run given only the moving frame has ended with the missing-fixed error
C3_Witness ==
    /\ Done
    /\ mode = "missingFixed"
    /\ HasValue(args.movingFoR)

(***************************************************************************)
(* C4.                                                                     *)
(***************************************************************************)
\* a diagnostic of a failure raised before the write step is on the error
\* stream: any line but the writer's own, in a run that did not end with
\* the help text
FailedBeforeWrite ==
    /\ \E i \in 1..Len(stderr) : stderr[i] /= ErrorLine(ItkException("writer"))
    /\ ~Succeeded

\* C4: a run that failed before the write step has not invoked the writer
\* and has no output file; the writer is invoked at most once, and only
\* on the composite the engine returned, already flattened.
C4_NoWriteOnEarlierFailure ==
    /\ FailedBeforeWrite => (writerCalls = 0 /\ outputFile = NoFile)
    /\ writerCalls <= 1
    /\ writerCalls = 0 => outputFile = NoFile
    /\ writerCalls = 1 =>
          /\ Passed("Composed")
          /\ transform /= <<>>
          /\ IsFlattened(transform[1])
          /\ outputFile.complete => outputFile.content = transform[1]
          /\ mode \in {"pair", "single"}

\* a pair-mode run has ended on the invertibility error, nothing written
C4_Witness ==
    /\ Done
    /\ Failed
    /\ LastLine = StdErrorLine(RuntimeError(NotInvertible, ""))
    /\ outputFile = NoFile

(***************************************************************************)
(* C5.                                                                     *)
(***************************************************************************)
\* the frame's composite, as read, holds a matrix that has no inverse
HoldsSingular(uid) ==
    /\ HoldsComposite(uid)
    /\ \E i \in 1..Len(MatricesOf(AsRead(uid))) : Det(MatricesOf(AsRead(uid))[i].m) = 0

ReportsNotInvertible ==
    /\ stderr /= <<>>
    /\ LastLine = StdErrorLine(RuntimeError(NotInvertible, ""))

\* the writer was not invoked or did what it was asked to
WriterDidNotFail ==
    \A i \in 1..Len(stderr) : stderr[i] /= ErrorLine(ItkException("writer"))

\* C5 as stated (read in its favour: the arguments were parsed, every
\* frame asked for was read as a composite and the writer does not fail):
\* a run whose --fixed names a frame holding a singular matrix creates no
\* output file and, once finished, has exited nonzero and reported the
\* invertibility error.
C5_SingularFixedAlwaysFails ==
    (/\ Passed("ArgsParsed") /\ mode \in {"pair", "single"}
     /\ HoldsSingular(FixedUID)
     /\ mode = "pair" => HoldsComposite(MovingUID)
     /\ WriterDidNotFail) =>
        /\ outputFile = NoFile
        /\ Done => (Failed /\ ReportsNotInvertible)

\* C5 amended: the same for pair mode only, and the error reported is the
\* invertibility error whenever the moving frame was read as a composite
\* (the moving frame is read before the fixed one is inverted).
C5_SingularFixedFailsInPairMode ==
    (Done /\ mode = "pair" /\ HoldsSingular(FixedUID)) =>
        /\ Failed
        /\ outputFile = NoFile
        /\ writerCalls = 0
        /\ HoldsComposite(MovingUID) => ReportsNotInvertible
        /\ ~HoldsComposite(MovingUID) => LastLine.uid = MovingUID

\* a pair-mode run on a singular fixed frame has reported the
\* invertibility error
C5_Witness ==
    /\ Done
    /\ mode = "pair"
    /\ HoldsSingular(FixedUID)
    /\ ReportsNotInvertible

(***************************************************************************)
(* C6.                                                                     *)
(***************************************************************************)
ValueFlags == {"--input", "-i", "--output", "-o", "--fixed", "--moving"}

HelpFlags == {"--help", "-h"}

RECURSIVE FirstStop(_, _)
\* the command line read from the left, a flag taking the token after it
\* as its value: what the first token is that is no flag with a value,
\* "help", "unknown" (an unknown flag or a flag whose value is missing),
\* or "end" when there is none
FirstStop(av, i) ==
    IF i > Len(av) THEN "end"
    ELSE IF av[i] \in ValueFlags /\ i < Len(av) THEN FirstStop(av, i + 2)
    ELSE IF av[i] \in HelpFlags THEN "help"
    ELSE "unknown"

RECURSIVE LastValue(_, _, _, _)
\* the value the last of the given flags carries, cur when there is none
LastValue(av, i, flags, cur) ==
    IF i >= Len(av) \/ av[i] \notin ValueFlags THEN cur
    ELSE LastValue(av, i + 2, flags, IF av[i] \in flags THEN <<av[i + 1]>> ELSE cur)

\* one of the flags is given, with whatever value
Gives(flags) == LastValue(argv, 1, flags, <<>>) /= <<>>

\* one of the flags is given and the last such carries a non-empty value
Supplies(flags) ==
    LET v == LastValue(argv, 1, flags, <<>>) IN v /= <<>> /\ v[1] /= ""

PrintsUsage == \E i \in 1..Len(stderr) : stderr[i] = UsageLine

\* C6 as stated (read in its favour: no help flag stops the parsing): a
\* finished run given --input and --output but no --fixed has exited
\* nonzero, printed a usage line and created no output; and a run with a
\* required flag missing, an unknown flag or a flag without a value has
\* printed the usage and exited nonzero.
C6_MissingFlagPrintsUsage ==
    (Done /\ FirstStop(argv, 1) /= "help") =>
        /\ (Supplies({"--input", "-i"}) /\ Supplies({"--output", "-o"})
              /\ ~Gives({"--fixed"}))
             => (Failed /\ PrintsUsage /\ outputFile = NoFile)
        /\ (FirstStop(argv, 1) = "unknown"
              \/ ~Supplies({"--input", "-i"}) \/ ~Supplies({"--output", "-o"})
              \/ ~Gives({"--fixed"}))
             => (Failed /\ PrintsUsage)

\* C6 amended: a finished run whose command line is all flags with
\* values, --input and --output among them and --fixed not, has exited
\* nonzero with the one line "At least --fixed must be supplied ..." on
\* the error stream, no usage line and no output; a run whose first token
\* that is no flag with a value is an unknown flag or a flag without a
\* value, or which has no such token but lacks --input or --output, has
\* printed the usage, exited nonzero and created no output.
C6_MissingFixedFailsWithoutUsage ==
    Done =>
        /\ (FirstStop(argv, 1) = "end"
              /\ Supplies({"--input", "-i"}) /\ Supplies({"--output", "-o"})
              /\ ~Gives({"--fixed"}))
             => /\ Failed
                /\ stderr = <<StdErrorLine(RuntimeError(MissingFixedFoR, ""))>>
                /\ ~PrintsUsage
                /\ outputFile = NoFile
        /\ (\/ FirstStop(argv, 1) = "unknown"
            \/ /\ FirstStop(argv, 1) = "end"
               /\ ~Supplies({"--input", "-i"}) \/ ~Supplies({"--output", "-o"}))
             => /\ Failed
                /\ PrintsUsage
                /\ LastLine = UsageLine
                /\ outputFile = NoFile
                /\ ~Passed("ArgsParsed")

\* a run given --input, --output and --moving but no --fixed has ended
C6_Witness ==
    /\ Done
    /\ FirstStop(argv, 1) = "end"
    /\ Supplies({"--input", "-i"})
    /\ Supplies({"--output", "-o"})
    /\ Gives({"--moving"})
    /\ ~Gives({"--fixed"})

(***************************************************************************)
(* C7.                                                                     *)
(***************************************************************************)
\* the parser yields no transform for the frame
Missing(uid) == file.readable /\ GetTransformList(file, uid) = <<>>

\* a frame the run asked for is missing from the file
RequestedFrameMissing ==
    /\ Passed("ArgsParsed")
    /\ mode \in {"pair", "single"}
    /\ Missing(FixedUID) \/ (mode = "pair" /\ Missing(MovingUID))

RequestedMissingUIDs ==
    { u \in {FixedUID} \cup (IF mode = "pair" THEN {MovingUID} ELSE {}) : Missing(u) }

\* C7 as stated: a finished run that asked for a frame the file has no
\* transforms for has exited nonzero, created no output, and its error
\* line carries the UID of a frame that is missing.
C7_ErrorNamesMissingFrame ==
    (Done /\ RequestedFrameMissing) =>
        /\ Failed
        /\ outputFile = NoFile
        /\ LastLine.uid \in RequestedMissingUIDs

\* C7 amended: such a run has exited nonzero and created no output; its
\* error line is "No transforms found for frame of reference " with the
\* UID of the first missing frame in reading order (fixed, then moving),
\* unless the fixed frame, read first, is there but is no composite: then
\* the line is the shape error with the fixed UID.
C7_ErrorNamesFirstFailedFrame ==
    (Done /\ RequestedFrameMissing) =>
        /\ Failed
        /\ outputFile = NoFile
        /\ writerCalls = 0
        /\ LastLine =
              IF Missing(FixedUID)
              THEN StdErrorLine(RuntimeError(NoTransformsFound, FixedUID))
              ELSE IF ~IsComposite(AsRead(FixedUID))
              THEN StdErrorLine(RuntimeError(ExpectedComposite, FixedUID))
              ELSE StdErrorLine(RuntimeError(NoTransformsFound, MovingUID))

\* a pair-mode run whose fixed frame was read and whose moving frame is
\* missing has reported the moving UID
C7_Witness ==
    /\ Done
    /\ mode = "pair"
    /\ HoldsComposite(FixedUID)
    /\ Missing(MovingUID)
    /\ LastLine.uid = MovingUID

(***************************************************************************)
(* C8.                                                                     *)
(***************************************************************************)
\* C8: whenever the writer has been invoked, the composite handed to it
\* holds at least one matrix; and a finished run whose fixed frame (or, in
\* pair mode, moving frame) was read as a composite with no matrix in it
\* has reported that no transforms were found for it, and written nothing.
C8_WriterInputNonEmpty ==
    /\ writerCalls >= 1 => (transform /= <<>> /\ transform[1].queue /= <<>>)
    /\ \A u \in FileUIDs :
          (/\ Done /\ mode \in {"pair", "single"}
           /\ u = FixedUID \/ (mode = "pair" /\ HoldsComposite(FixedUID) /\ u = MovingUID)
           /\ HoldsComposite(u) /\ MatricesOf(AsRead(u)) = <<>>)
          => /\ LastLine = StdErrorLine(RuntimeError(NoTransformsFound, u))
             /\ writerCalls = 0

(***************************************************************************)
(* C9.                                                                     *)
(***************************************************************************)
SuccessPath == <<"Init", "ArgsParsed", "Composed", "Written", "Exited">>

FailurePaths ==
    { <<"Init", "ArgsParsed", "ErrorReported", "Exited">>,
      <<"Init", "ArgsParsed", "Composed", "ErrorReported", "Exited">> }

\* argument parsing ended the process from inside
ParseExitPath == <<"Init", "Exited">>

IsPrefix(s, t) == Len(s) <= Len(t) /\ SubSeq(t, 1, Len(s)) = s

\* C9 as stated, its safety part: the states passed so far are the start
\* of a path Init, ArgsParsed, Composed or ErrorReported, Written or
\* ErrorReported, Exited; a finished run has passed ArgsParsed, has exited
\* with success only through Composed and Written, and with failure only
\* through ErrorReported.
C9_EveryRunPassesArgsParsed ==
    /\ \E path \in {SuccessPath} \cup FailurePaths : IsPrefix(hist, path)
    /\ Done => /\ Passed("ArgsParsed")
               /\ Succeeded => hist = SuccessPath
               /\ Failed => Passed("ErrorReported")

\* the run so far is the start of one of the paths of the driver, with
\* the exit straight out of argument parsing among them; a finished run
\* exited with success iff it took the success path or the parsing ended
\* on a help flag, and a failing run that parsed its arguments passed
\* ErrorReported
OnDriverPath ==
    /\ \E path \in {SuccessPath, ParseExitPath} \cup FailurePaths : IsPrefix(hist, path)
    /\ hist[Len(hist)] = pc
    /\ Done <=> exitCode /= <<>>
    /\ Done =>
          /\ Succeeded \/ Failed
          /\ Succeeded <=> \/ hist = SuccessPath
                           \/ hist = ParseExitPath /\ FirstStop(argv, 1) = "help"
          /\ (Failed /\ Passed("ArgsParsed")) => hist \in FailurePaths
          /\ hist = ParseExitPath => PrintsUsage

\* C9 amended: every execution is a path Init, Exited (argument parsing
\* ended the process after printing the usage: with success on a help
\* flag, with failure otherwise) or Init, ArgsParsed, Composed or
\* ErrorReported, Written or ErrorReported, Exited; a run that parsed its
\* arguments exits with success only through Composed and then Written
\* and with failure only through ErrorReported; every run eventually
\* reaches Exited.
C9_EveryRunIsADriverPath == [](OnDriverPath) /\ <>[](pc = "Exited")

\* a run has exited with success straight out of argument parsing
C9_Witness ==
    /\ Done
    /\ hist = ParseExitPath
    /\ Succeeded

====
